---- MODULE Spec2Model ----
(***************************************************************************)
(* A model of cmd/trustpilot/main.go: the scraper fetches the first review *)
(* page of a product, extracts its review cards, discovers the number of   *)
(* pages from the "last page" link, fetches pages 2..N in parallel and     *)
(* funnels every review through one unbuffered channel into one slice.     *)
(* Spec follows a run of the program, every goroutine step by step: main,  *)
(* the consumer, the goroutine of each page and the consumer of its call   *)
(* of getPageProductReviews. CallSpec follows two calls of                 *)
(* getPageProductReviews on one document, and AllSpec is the two together. *)
(*                                                                         *)
(* Strings whose characters the code inspects (class attributes, the href  *)
(* of the pagination link) are sequences of one-character strings; strings *)
(* the code only copies or concatenates (URLs, review fields) are strings. *)
(***************************************************************************)
EXTENDS Integers, Sequences, FiniteSets, Bags, TLC

(* ------------------------------ bounds --------------------------------- *)

\* The site has pages 1..MaxPage.
MaxPage == 3

\* A page carries at most MaxCards review cards.
MaxCards == 2

(* --------------------------- program constants ------------------------- *)

productName == "invideo.io"

\* fmt.Sprintf(scrapingURL, name)
scrapingURL(name) == "https://www.trustpilot.com/review/" \o name

\* fmt.Sprintf(scrapingPageURL, name, page)
scrapingPageURL(name, page) ==
    "https://www.trustpilot.com/review/" \o name \o "?page=" \o ToString(page)

\* The nil error.
Nil == "nil"

\* A pointer: nil, or to one value.
NilPtr == <<>>
Ptr(v) == <<v>>
Deref(p) == p[1]

(* ------------------------------ strings -------------------------------- *)

Digits == <<"0", "1", "2", "3", "4", "5", "6", "7", "8", "9">>

IsDigit(c) == \E n \in 1..10 : Digits[n] = c

DigitVal(c) == (CHOOSE n \in 1..10 : Digits[n] = c) - 1

\* strings.HasPrefix(s, prefix)
HasPrefix(s, prefix) ==
    /\ Len(s) >= Len(prefix)
    /\ SubSeq(s, 1, Len(prefix)) = prefix

\* strings.Split(s, sep) for a one-character separator: the pieces between
\* the separators, empty pieces included; a string without a separator is
\* one piece.
RECURSIVE Split(_, _)
Split(s, sep) ==
    IF \A i \in 1..Len(s) : s[i] # sep
    THEN <<s>>
    ELSE LET i == CHOOSE j \in 1..Len(s) :
                      /\ s[j] = sep
                      /\ \A h \in 1..(j - 1) : s[h] # sep
         IN  <<SubSeq(s, 1, i - 1)>> \o Split(SubSeq(s, i + 1, Len(s)), sep)

PagePattern == <<"p", "a", "g", "e", "=">>

\* regexp.MatchString("page=\\d+", href): the pattern occurs somewhere.
MatchString(href) ==
    \E i \in 1..Len(href) :
        /\ i + Len(PagePattern) <= Len(href)
        /\ SubSeq(href, i, i + Len(PagePattern) - 1) = PagePattern
        /\ IsDigit(href[i + Len(PagePattern)])

\* The end of the run of digits that starts at position i.
RECURSIVE DigitRunEnd(_, _)
DigitRunEnd(s, i) ==
    IF i < Len(s) /\ IsDigit(s[i + 1]) THEN DigitRunEnd(s, i + 1) ELSE i

\* regexp.MustCompile("\\d+").FindString(href): the leftmost run of digits,
\* as long as it goes; "" when the string has no digit.
FindString(href) ==
    IF \A i \in 1..Len(href) : ~IsDigit(href[i])
    THEN <<>>
    ELSE LET i == CHOOSE j \in 1..Len(href) :
                      /\ IsDigit(href[j])
                      /\ \A h \in 1..(j - 1) : ~IsDigit(href[h])
         IN  SubSeq(href, i, DigitRunEnd(href, i))

RECURSIVE StripZeros(_)
StripZeros(s) ==
    IF Len(s) > 1 /\ s[1] = "0" THEN StripZeros(Tail(s)) ELSE s

\* s <= t for two numerals of the same length.
RECURSIVE NumeralLeq(_, _)
NumeralLeq(s, t) ==
    IF s = <<>> THEN TRUE
    ELSE IF DigitVal(s[1]) # DigitVal(t[1]) THEN DigitVal(s[1]) < DigitVal(t[1])
    ELSE NumeralLeq(Tail(s), Tail(t))

\* math.MaxInt64, the largest int of a 64-bit build.
MaxInt == <<"9", "2", "2", "3", "3", "7", "2", "0", "3", "6",
            "8", "5", "4", "7", "7", "5", "8", "0", "7">>

\* An int of the program is held as its decimal numeral without leading
\* zeros, so that every value of a 64-bit int is what it is in the program
\* (the integers of the model checker end at 2147483647).

\* n <= m for two such ints.
IntLeq(n, m) == Len(n) < Len(m) \/ (Len(n) = Len(m) /\ NumeralLeq(n, m))

\* strconv.Atoi(s) on a string of digits: 0 and a syntax error on the empty
\* string, the largest int and a range error above it, the value and a nil
\* error otherwise.
Atoi(s) ==
    LET t == StripZeros(s)
    IN  IF s = <<>> THEN [err |-> "strconv.Atoi: invalid syntax", val |-> <<"0">>]
        ELSE IF ~IntLeq(t, MaxInt)
        THEN [err |-> "strconv.Atoi: value out of range", val |-> MaxInt]
        ELSE [err |-> Nil, val |-> t]

\* The int n of the model checker as an int of the program.
RECURSIVE Dec(_)
Dec(n) == IF n < 10 THEN <<Digits[n + 1]>> ELSE Dec(n \div 10) \o <<Digits[(n % 10) + 1]>>

(* ------------------------------ markup --------------------------------- *)

\* An attribute or a node that may be missing; a missing one reads as the
\* empty string (AbsentChars where the value is a sequence of characters).
Absent == [exists |-> FALSE, val |-> ""]
AbsentChars == [exists |-> FALSE, val |-> <<>>]
Present(v) == [exists |-> TRUE, val |-> v]

\* goquery Selection.Attr: the value and whether the attribute exists.
Attr(a) == <<a.val, a.exists>>

\* goquery Selection.AttrOr
AttrOr(a, default) == IF a.exists THEN a.val ELSE default

\* goquery Selection.Text: the text of the selected nodes, "" for none.
Text(n) == IF n.exists THEN n.val ELSE ""

ReviewCardPrefix == <<"s", "t", "y", "l", "e", "s", "_", "r", "e", "v", "i", "e",
                      "w", "C", "a", "r", "d", "_", "_">>

CardWrapperPrefix == <<"s", "t", "y", "l", "e", "s", "_", "c", "a", "r", "d", "W",
                       "r", "a", "p", "p", "e", "r", "_", "_">>

\* extractReviewFunc with the test of line 213 turned into "neither marker":
\* a div with one of the two markers is taken for a card.
extractReviewFunc_EitherMarker(s, productURL) ==
    IF ~Attr(s.class)[2]
    THEN <<>>
    ELSE LET parts == Split(s.class.val, " ")
             link0 == Attr(s.href)[1]
         IN  IF /\ ~\E i \in 1..Len(parts) : HasPrefix(parts[i], ReviewCardPrefix)
                /\ ~\E i \in 1..Len(parts) : HasPrefix(parts[i], CardWrapperPrefix)
             THEN <<>>
             ELSE <<[Text   |-> Text(s.text),
                     Date   |-> AttrOr(s.datetime, ""),
                     Rating |-> AttrOr(s.alt, ""),
                     Title  |-> Text(s.title),
                     Link   |-> IF link0 # "" THEN productURL \o link0 ELSE link0]>>

\* The callback of extractReviewFunc on one div s: the Reviews it sends on
\* its channel, in order (none or one).
extractReviewFunc(s, productURL) ==
    IF ~Attr(s.class)[2]
    THEN <<>>
    ELSE LET parts         == Split(s.class.val, " ")
             isReviewCard  == \E i \in 1..Len(parts) :
                                  HasPrefix(parts[i], ReviewCardPrefix)
             isCardWrapper == \E i \in 1..Len(parts) :
                                  HasPrefix(parts[i], CardWrapperPrefix)
             dateOfPost    == AttrOr(s.datetime, "")
             textOfReview  == Text(s.text)
             title         == Text(s.title)
             link0         == Attr(s.href)[1]
             link          == IF link0 # "" THEN productURL \o link0 ELSE link0
             rating        == AttrOr(s.alt, "")
         IN  IF ~isReviewCard \/ ~isCardWrapper
             THEN <<>>
             ELSE <<[Text   |-> textOfReview,
                     Date   |-> dateOfPost,
                     Rating |-> rating,
                     Title  |-> title,
                     Link   |-> link]>>

\* The callback of extractReviewsOverPagesFunc on one anchor, up to its
\* loop: the last page the loop runs to, 0 when the callback returns before
\* the loop (no href, no page=<digits>, a number Atoi refuses).
lastPageIntOf(a) ==
    LET href == Attr(a.href)
    IN  IF ~href[2] THEN Dec(0)
        ELSE IF ~MatchString(a.href.val) THEN Dec(0)
        ELSE LET lastPage == FindString(a.href.val)
                 parsed   == Atoi(lastPage)
             IN  IF parsed.err # Nil THEN Dec(0) ELSE parsed.val

(* ------------------------------- inputs -------------------------------- *)

RECURSIVE Join(_, _)
Join(tokens, sep) ==
    IF tokens = <<>> THEN <<>>
    ELSE IF Len(tokens) = 1 THEN tokens[1]
    ELSE tokens[1] \o <<sep>> \o Join(Tail(tokens), sep)

\* A class attribute lists at most MaxClasses classes.
MaxClasses == 2

ClassReviewCard == ReviewCardPrefix \o <<"9", "w", "2", "n">>
ClassCardWrapper == CardWrapperPrefix \o <<"L", "c", "D", "m", "z">>
ClassPaper == <<"p", "a", "p", "e", "r">>
ClassShort == <<"s", "t", "y", "l", "e", "s", "_", "r", "e", "v", "i", "e", "w",
                "C", "a", "r", "d">>
ClassInfix == <<"x">> \o ReviewCardPrefix \o <<"a">>

\* The classes a div of the inputs may carry: the two markers, a class of
\* neither family, a marker cut short, a marker that is not at the start,
\* and no class at all (a space more in the attribute).
ClassTokens ==
    {ClassReviewCard, ClassCardWrapper, ClassPaper, ClassShort, ClassInfix, <<>>}

ClassLists == UNION {[1..n -> ClassTokens] : n \in 0..MaxClasses}

\* The sub-fields of a card: all present, none, or some.
SubFields ==
    { [datetime |-> Present("2024-05-01T10:00:00.000Z"), text |-> Present("Great tool"),
       title |-> Present("Great"), alt |-> Present("Rated 5 out of 5 stars")],
      [datetime |-> Absent, text |-> Absent, title |-> Absent, alt |-> Absent],
      [datetime |-> Absent, text |-> Present("Great tool"),
       title |-> Present(""), alt |-> Absent] }

TitleLinks == {Absent, Present(""), Present("/reviews/123")}

MakeDiv(class, f, href) ==
    [class |-> class, datetime |-> f.datetime, text |-> f.text,
     title |-> f.title, href |-> href, alt |-> f.alt]

\* The divs of the markup inputs: the class attribute is written from a
\* list of classes.
MarkupDivs ==
    { MakeDiv(Present(Join(cl, " ")), f, h) :
          cl \in ClassLists, f \in SubFields, h \in TitleLinks }
    \cup { MakeDiv(AbsentChars, f, h) : f \in SubFields, h \in TitleLinks }

\* The j-th review card of page k: cards differ in their text, and take
\* turns in having a title link, an empty one, and none.
Card(k, j) ==
    [class     |-> Present(Join(<<ClassPaper, ClassReviewCard, ClassCardWrapper>>, " ")),
     datetime  |-> Present("2024-05-01T10:00:00.000Z"),
     text      |-> Present("review " \o ToString(k) \o "." \o ToString(j)),
     title     |-> Present("title " \o ToString(k) \o "." \o ToString(j)),
     href      |-> IF j % 2 = 1 THEN Present("/reviews/" \o ToString(k) \o ToString(j))
                   ELSE IF k % 2 = 1 THEN Present("") ELSE Absent,
     alt       |-> Present("Rated 4 out of 5 stars")]

\* A div that is no card: an advertisement sharing one class family.
AdDiv ==
    [class     |-> Present(Join(<<ClassPaper, ClassCardWrapper>>, " ")),
     datetime  |-> Absent, text |-> Present("Buy now"), title |-> Absent,
     href      |-> Absent, alt |-> Present("ad")]

\* Page k with n cards: an advertisement, then the cards.
PageDoc(k, n) == <<AdDiv>> \o [j \in 1..n |-> Card(k, j)]

HrefBase == <<"/", "r", "e", "v", "i", "e", "w", "/", "i", "n", "v", "i", "d", "e",
              "o", ".", "i", "o">>

HrefHuge == <<"9", "9", "9", "9", "9", "9", "9", "9", "9", "9",
              "9", "9", "9", "9", "9", "9", "9", "9", "9", "9">>

HrefStars == <<"?", "s", "t", "a", "r", "s", "=", "2", "&">>

\* The last-page link of a product with K pages.
PageHref(K) == HrefBase \o <<"?">> \o PagePattern \o Dec(K)

Anchor(href) == [href |-> href]

\* The anchors matching a[name='pagination-button-last'] in the inputs: no
\* href, no page parameter, a page parameter without digits, a page number
\* 0..MaxPage, a page number past the largest int, and the last two behind
\* another parameter that has a digit.
Anchors ==
    { Anchor(AbsentChars),
      Anchor(Present(HrefBase)),
      Anchor(Present(HrefBase \o <<"?">> \o PagePattern \o <<"x">>)),
      Anchor(Present(HrefBase \o <<"?">> \o PagePattern \o HrefHuge)),
      Anchor(Present(HrefBase \o HrefStars \o PagePattern \o Dec(MaxPage))),
      Anchor(Present(HrefBase \o HrefStars \o PagePattern \o HrefHuge)) }
    \cup { Anchor(Present(PageHref(K))) : K \in 0..MaxPage }

\* The documents with two such anchors in the inputs.
AnchorPairs ==
    { <<Anchor(Present(PageHref(2))), Anchor(Present(PageHref(2)))>>,
      <<Anchor(Present(PageHref(2))), Anchor(AbsentChars)>>,
      <<Anchor(AbsentChars), Anchor(Present(PageHref(2)))>>,
      <<Anchor(Present(HrefBase)), Anchor(Present(PageHref(MaxPage)))>>,
      <<Anchor(Present(PageHref(1))), Anchor(Present(PageHref(0)))>> }

AnchorLists == {<<>>} \cup {<<a>> : a \in Anchors} \cup AnchorPairs

Pages == 2..MaxPage

(* ----------------------- the callbacks on the inputs ------------------- *)

\* The Sprintf of line 62 and line 157: the product's page without a query.
productURLOf(name) == scrapingURL(name)

\* The Sprintf of line 159: the URL a page task requests.
productRequestURLOf(name, page) == scrapingPageURL(name, page)

\* getPageProductReviews handing the URL it requested to the extraction, in
\* place of the query-free one.
pageProductURLOf_RequestURL(name, page) == productRequestURLOf(name, page)

\* Line 157: the productURL getPageProductReviews(name, page) hands to the
\* extraction of line 184, without the query of the URL it requests.
pageProductURLOf(name, page) == productURLOf(name)

\* The divs and the URLs of the inputs.
PipelineDivs == {AdDiv} \cup {Card(k, j) : k \in 1..MaxPage, j \in 1..MaxCards}
AllDivs == MarkupDivs \cup PipelineDivs
AllURLs == {productURLOf(productName)}
               \cup {productRequestURLOf(productName, k) : k \in Pages}

\* extractReviewFunc and lastPageIntOf on the inputs, worked out once.
extractReviewFuncOnPipeline ==
    [url \in AllURLs, d \in PipelineDivs |-> extractReviewFunc(d, url)]
extractReviewFuncOnMarkup ==
    [url \in AllURLs, d \in MarkupDivs |-> extractReviewFunc(d, url)]
extractReviewFuncOn(url, d) ==
    IF d \in PipelineDivs THEN extractReviewFuncOnPipeline[url, d]
    ELSE extractReviewFuncOnMarkup[url, d]
lastPageIntOn == [a \in Anchors |-> lastPageIntOf(a)]

\* doc.Find("div").Each(extractReviewFunc(ch, productURL)): everything the
\* divs of a document send, in document order.
RECURSIVE EachDiv(_, _)
EachDiv(divs, productURL) ==
    IF divs = <<>> THEN <<>>
    ELSE extractReviewFuncOn(productURL, Head(divs)) \o EachDiv(Tail(divs), productURL)

(* ------------------------------- state --------------------------------- *)

VARIABLES
    doc1,        \* the parsed first page: its divs and its last-page anchors
    site,        \* the divs of the parsed pages 2..MaxPage, by page
    pc,          \* where main and getProductReviews are
    ret,         \* what getProductReviews returned: a ProductReviews, an error
    reviews,     \* the slice `reviews` of getProductReviews
    chanClosed,  \* reviewsChan of getProductReviews has been closed
    quitClosed,  \* quitChan has been closed
    consumer,    \* the goroutine of lines 82-88: where it is, the review it holds
    divIdx,      \* the div of page 1 the Each of line 91 is at
    anchorIdx,   \* the anchor the Each of line 94 is at
    wg,          \* the WaitGroup counter of the anchor being handled
    task,        \* the goroutines of lines 133-146 of that anchor, by page
    requested,   \* the http.Get calls made so far, by page
    fetched,     \* those that answered with a parsed document, by page
    sent,        \* the sends on reviewsChan completed so far
    output,      \* the file main has written, NilPtr before
    call         \* a call of getPageProductReviews followed step by step

vars == <<pc, task, consumer, call, reviews, sent, ret, chanClosed, quitClosed, divIdx,
          anchorIdx, wg, requested, fetched, output, doc1, site>>

\* The variables of main, getProductReviews and its goroutines.
mainVars == <<doc1, site, pc, ret, reviews, chanClosed, quitClosed, consumer, divIdx,
              anchorIdx, wg, task, requested, fetched, sent, output>>

\* No call of getPageProductReviews is followed step by step.
NoCall ==
    [pc |-> "none", divs |-> <<>>, idx |-> 1, reviews |-> <<>>, chanClosed |-> FALSE,
     quitClosed |-> FALSE, consumer |-> [pc |-> "none", review |-> NilPtr],
     results |-> <<>>]

\* The call of getPageProductReviews of a goroutine of lines 133-146: the
\* div its Each of line 184 is at, its slice `reviews`, its reviewsChan and
\* quitChan, its consumer goroutine of lines 175-181. Here no call is
\* running.
NoPageCall ==
    [idx |-> 1, reviews |-> <<>>, chanClosed |-> FALSE, quitClosed |-> FALSE,
     consumer |-> [pc |-> "none", review |-> NilPtr]]

\* A goroutine of lines 133-146: where it is, whether its err is non-nil,
\* its pageReviews, the index of its range loop and its call of
\* getPageProductReviews.
NoTask ==
    [pc |-> "none", failed |-> FALSE, pageReviews |-> <<>>, idx |-> 1,
     call |-> NoPageCall]

\* The state of a run whose inputs are the first page d and the pages s.
Start(d, s) ==
    /\ doc1 = d
    /\ site = s
    /\ pc = "Start"
    /\ ret = [value |-> NilPtr, err |-> Nil]
    /\ reviews = <<>>
    /\ chanClosed = FALSE
    /\ quitClosed = FALSE
    /\ consumer = [pc |-> "none", review |-> NilPtr]
    /\ divIdx = 1
    /\ anchorIdx = 1
    /\ wg = 0
    /\ task = [k \in Pages |-> NoTask]
    /\ requested = [k \in Pages |-> 0]
    /\ fetched = [k \in Pages |-> 0]
    /\ sent = 0
    /\ output = NilPtr
    /\ call = NoCall

\* A paginated site: n cards on every page but the last, which has m <= n,
\* and a first page with any of the anchor lists.
InitPipeline ==
    \E n \in 0..MaxCards, m \in 0..MaxCards, al \in AnchorLists :
        /\ m <= n
        /\ Start([divs |-> PageDoc(1, n), anchors |-> al],
                 [k \in Pages |-> IF k < MaxPage THEN PageDoc(k, n) ELSE PageDoc(k, m)])

\* A site whose pages are one div of the markup inputs each, two pages long.
InitMarkup ==
    \E d \in MarkupDivs :
        Start([divs |-> <<d>>, anchors |-> <<Anchor(Present(PageHref(2)))>>],
              [k \in Pages |-> <<d>>])

Init == InitPipeline \/ InitMarkup

(* ------------------------------ actions -------------------------------- *)

\* A step of a goroutine runs it to its next wait: the answer to a request,
\* the body of a response, a send or a receive on a channel, wg.Wait; an
\* Each takes one element per step. A panic ends the process and every
\* goroutine with it.

\* The answers of an http.Get followed by goquery.NewDocumentFromReader.
FetchErrors == {"http.Get", "goquery.NewDocumentFromReader"}

\* FetchFirstPage with the consumer goroutine started before the request:
\* it is running when the error returns.
FetchFirstPage_ConsumerFirst ==
    /\ pc = "Start"
    /\ consumer' = [pc |-> "recv", review |-> NilPtr]
    /\ \/ \E e \in FetchErrors :
              /\ ret' = [value |-> NilPtr, err |-> e]
              /\ pc' = "Failed"
       \/ /\ pc' = "ExtractFirstPage"
          /\ UNCHANGED ret
    /\ UNCHANGED <<call, doc1, site, reviews, chanClosed, quitClosed, divIdx, anchorIdx, wg,
                   task, requested, fetched, sent, output>>

\* Lines 60-88: the request and parse of page 1; on success the slice, the
\* two channels and the consumer goroutine are made.
FetchFirstPage ==
    /\ pc = "Start"
    /\ \/ \E e \in FetchErrors :
              /\ ret' = [value |-> NilPtr, err |-> e]
              /\ pc' = "Failed"
              /\ UNCHANGED consumer
       \/ /\ consumer' = [pc |-> "recv", review |-> NilPtr]
          /\ pc' = "ExtractFirstPage"
          /\ UNCHANGED ret
    /\ UNCHANGED <<call, doc1, site, reviews, chanClosed, quitClosed, divIdx, anchorIdx, wg,
                   task, requested, fetched, sent, output>>

\* Line 91, one div of page 1: the callback returns without a Review, or
\* its send on the unbuffered reviewsChan meets the consumer's receive. A
\* send on a closed channel panics, which ends the process.
ExtractFirstPageDiv ==
    /\ pc = "ExtractFirstPage"
    /\ divIdx <= Len(doc1.divs)
    /\ \E out \in {extractReviewFuncOn(productURLOf(productName), doc1.divs[divIdx])} :
           \/ /\ out = <<>>
              /\ divIdx' = divIdx + 1
              /\ UNCHANGED <<pc, consumer, sent>>
           \/ /\ out # <<>>
              /\ IF chanClosed
                 THEN /\ pc' = "Panic"
                      /\ UNCHANGED <<consumer, sent, divIdx>>
                 ELSE /\ consumer.pc = "recv"
                      /\ consumer' = [pc |-> "append", review |-> Ptr(out[1])]
                      /\ sent' = sent + 1
                      /\ divIdx' = divIdx + 1
                      /\ UNCHANGED pc
    /\ UNCHANGED <<call, doc1, site, ret, reviews, chanClosed, quitClosed, anchorIdx, wg,
                   task, requested, fetched, output>>

\* FirstPageExtracted where line 94 is reached before the Each of line 91
\* has gone through every div of page 1.
FirstPageExtracted_Early ==
    /\ pc = "ExtractFirstPage"
    /\ pc' = "Paginate"
    /\ UNCHANGED <<call, doc1, site, ret, reviews, chanClosed, quitClosed, consumer, divIdx,
                   anchorIdx, wg, task, requested, fetched, sent, output>>

\* Line 91 has gone through every div: on to line 94.
FirstPageExtracted ==
    /\ pc = "ExtractFirstPage"
    /\ divIdx > Len(doc1.divs)
    /\ pc' = "Paginate"
    /\ UNCHANGED <<call, doc1, site, ret, reviews, chanClosed, quitClosed, consumer, divIdx,
                   anchorIdx, wg, task, requested, fetched, sent, output>>

\* Line 84: the consumer appends the review it received.
ConsumerAppend ==
    /\ pc # "Panic"
    /\ consumer.pc = "append"
    /\ reviews' = Append(reviews, Deref(consumer.review))
    /\ consumer' = [pc |-> "recv", review |-> NilPtr]
    /\ UNCHANGED <<call, doc1, site, pc, ret, chanClosed, quitClosed, divIdx, anchorIdx, wg,
                   task, requested, fetched, sent, output>>

\* Lines 83 and 87: the range over the closed channel ends, quitChan closes.
ConsumerQuit ==
    /\ pc # "Panic"
    /\ consumer.pc = "recv"
    /\ chanClosed
    /\ consumer' = [pc |-> "done", review |-> NilPtr]
    /\ quitClosed' = TRUE
    /\ UNCHANGED <<call, doc1, site, pc, ret, reviews, chanClosed, divIdx, anchorIdx, wg, task,
                   requested, fetched, sent, output>>

\* PaginateAnchor with the loop of line 131 running one page too far.
PaginateAnchor_OffByOne ==
    /\ pc = "Paginate"
    /\ anchorIdx <= Len(doc1.anchors)
    /\ \E lastPageInt \in {lastPageIntOn[doc1.anchors[anchorIdx]]} :
           /\ IntLeq(lastPageInt, Dec(MaxPage))
           /\ task' = [k \in Pages |->
                          IF IntLeq(Dec(k - 1), lastPageInt)
                          THEN [NoTask EXCEPT !.pc = "fetch"]
                          ELSE NoTask]
           /\ wg' = Cardinality({k \in Pages : IntLeq(Dec(k - 1), lastPageInt)})
    /\ pc' = "WaitPages"
    /\ UNCHANGED <<call, doc1, site, ret, reviews, chanClosed, quitClosed, consumer, divIdx,
                   anchorIdx, requested, fetched, sent, output>>

\* Lines 109-147 on one anchor of line 94: the callback returns early, or
\* starts one goroutine per page 2..lastPageInt and goes to wg.Wait. The
\* model follows the anchors whose loop ends within the pages of the site.
PaginateAnchor ==
    /\ pc = "Paginate"
    /\ anchorIdx <= Len(doc1.anchors)
    /\ \E lastPageInt \in {lastPageIntOn[doc1.anchors[anchorIdx]]} :
           /\ IntLeq(lastPageInt, Dec(MaxPage))
           /\ task' = [k \in Pages |->
                          IF IntLeq(Dec(k), lastPageInt)
                          THEN [NoTask EXCEPT !.pc = "fetch"]
                          ELSE NoTask]
           /\ wg' = Cardinality({k \in Pages : IntLeq(Dec(k), lastPageInt)})
    /\ pc' = "WaitPages"
    /\ UNCHANGED <<call, doc1, site, ret, reviews, chanClosed, quitClosed, consumer, divIdx,
                   anchorIdx, requested, fetched, sent, output>>

\* WaitPages without the wg.Wait of line 149: the callback returns while
\* its goroutines run.
WaitPages_NoWait ==
    /\ pc = "WaitPages"
    /\ anchorIdx' = anchorIdx + 1
    /\ pc' = "Paginate"
    /\ UNCHANGED <<call, doc1, site, ret, reviews, chanClosed, quitClosed, consumer, divIdx,
                   wg, task, requested, fetched, sent, output>>

\* Line 149 (or the early return of the callback): the anchor is done.
WaitPages ==
    /\ pc = "WaitPages"
    /\ wg = 0
    /\ anchorIdx' = anchorIdx + 1
    /\ pc' = "Paginate"
    /\ UNCHANGED <<call, doc1, site, ret, reviews, chanClosed, quitClosed, consumer, divIdx,
                   wg, task, requested, fetched, sent, output>>

\* Line 96, after the Each of line 94 has gone through every anchor.
CloseReviewsChan ==
    /\ pc = "Paginate"
    /\ anchorIdx > Len(doc1.anchors)
    /\ chanClosed' = TRUE
    /\ pc' = "WaitQuit"
    /\ UNCHANGED <<call, doc1, site, ret, reviews, quitClosed, consumer, divIdx, anchorIdx, wg,
                   task, requested, fetched, sent, output>>

\* WaitQuit turning the failure of a page into the failure of the run.
WaitQuit_PageError ==
    /\ pc = "WaitQuit"
    /\ quitClosed
    /\ IF \E k \in Pages : requested[k] > fetched[k]
       THEN /\ ret' = [value |-> NilPtr, err |-> "page"]
            /\ pc' = "Failed"
       ELSE /\ ret' = [value |-> Ptr([ProductName |-> productName, Reviews |-> reviews]),
                       err |-> Nil]
            /\ pc' = "Returned"
    /\ UNCHANGED <<call, doc1, site, reviews, chanClosed, quitClosed, consumer, divIdx,
                   anchorIdx, wg, task, requested, fetched, sent, output>>

\* WaitQuit without the receive on quitChan of line 99.
WaitQuit_NoWait ==
    /\ pc = "WaitQuit"
    /\ ret' = [value |-> Ptr([ProductName |-> productName, Reviews |-> reviews]),
              err |-> Nil]
    /\ pc' = "Returned"
    /\ UNCHANGED <<call, doc1, site, reviews, chanClosed, quitClosed, consumer, divIdx,
                   anchorIdx, wg, task, requested, fetched, sent, output>>

\* Lines 99-104: the receive on the closed quitChan, then the return.
WaitQuit ==
    /\ pc = "WaitQuit"
    /\ quitClosed
    /\ ret' = [value |-> Ptr([ProductName |-> productName, Reviews |-> reviews]),
              err |-> Nil]
    /\ pc' = "Returned"
    /\ UNCHANGED <<call, doc1, site, reviews, chanClosed, quitClosed, consumer, divIdx,
                   anchorIdx, wg, task, requested, fetched, sent, output>>

\* Lines 133-160 of the goroutine of page k: it calls getPageProductReviews,
\* which makes its request; the goroutine waits for the answer while the
\* others run.
PageTaskRequest(k) ==
    /\ pc # "Panic"
    /\ task[k].pc = "fetch"
    /\ requested' = [requested EXCEPT ![k] = @ + 1]
    /\ task' = [task EXCEPT ![k].pc = "await"]
    /\ UNCHANGED <<call, doc1, site, pc, ret, reviews, chanClosed, quitClosed, consumer, divIdx,
                   anchorIdx, wg, fetched, sent, output>>

\* PageTaskResult where a failed page ends the goroutines of the other
\* pages as well.
PageTaskResult_CancelSiblings(k, got) ==
    IF got.err # Nil
    THEN /\ task' = [j \in Pages |->
                        IF task[j].pc = "none" THEN NoTask
                        ELSE [NoTask EXCEPT !.pc = "done", !.failed = TRUE]]
         /\ wg' = 0
    ELSE /\ task' = [task EXCEPT ![k] =
                        [NoTask EXCEPT !.pc = IF got.reviews = <<>> THEN "done" ELSE "send",
                                       !.pageReviews = got.reviews]]
         /\ wg' = IF got.reviews = <<>> THEN wg - 1 ELSE wg

\* PageTaskResult where wg.Done is not deferred: the return of line 140
\* skips it.
PageTaskResult_NoDone(k, got) ==
    IF got.err # Nil
    THEN /\ task' = [task EXCEPT ![k] = [NoTask EXCEPT !.pc = "done", !.failed = TRUE]]
         /\ UNCHANGED wg
    ELSE /\ task' = [task EXCEPT ![k] =
                        [NoTask EXCEPT !.pc = IF got.reviews = <<>> THEN "done" ELSE "send",
                                       !.pageReviews = got.reviews]]
         /\ wg' = IF got.reviews = <<>> THEN wg - 1 ELSE wg

\* PageTaskResult where getPageProductReviews hands over reviews of the page
\* next to its error, all but the last, and the goroutine sends them.
PageTaskResult_Partial(k, got) ==
    \E whole \in {EachDiv(site[k], pageProductURLOf(productName, k))} :
        \E part \in {IF got.err = Nil THEN got.reviews
                      ELSE IF whole = <<>> THEN <<>>
                      ELSE SubSeq(whole, 1, Len(whole) - 1)} :
            /\ task' = [task EXCEPT ![k] =
                           [NoTask EXCEPT !.pc = IF part = <<>> THEN "done" ELSE "send",
                                          !.failed = got.err # Nil,
                                          !.pageReviews = part]]
            /\ wg' = IF part = <<>> THEN wg - 1 ELSE wg

\* Lines 136-143 and 134 of the goroutine of page k, on what its call of
\* getPageProductReviews returned: on an error it logs it and ends, as it
\* does when the page gave no review (wg.Done is deferred); otherwise it is
\* at the first send of its range loop. The locals of the call are gone.
PageTaskResult(k, got) ==
    IF got.err # Nil
    THEN /\ task' = [task EXCEPT ![k] = [NoTask EXCEPT !.pc = "done", !.failed = TRUE]]
         /\ wg' = wg - 1
    ELSE /\ task' = [task EXCEPT ![k] =
                        [NoTask EXCEPT !.pc = IF got.reviews = <<>> THEN "done" ELSE "send",
                                       !.pageReviews = got.reviews]]
         /\ wg' = IF got.reviews = <<>> THEN wg - 1 ELSE wg

\* Lines 160-164: http.Get answers the request of page k, with an error,
\* which getPageProductReviews returns, or with a response, whose body
\* line 166 goes on to read.
PageTaskAnswer(k) ==
    /\ pc # "Panic"
    /\ task[k].pc = "await"
    /\ \/ PageTaskResult(k, [reviews |-> <<>>, err |-> "http.Get"])
       \/ /\ task' = [task EXCEPT ![k].pc = "parse"]
          /\ UNCHANGED wg
    /\ UNCHANGED <<call, doc1, site, pc, ret, reviews, chanClosed, quitClosed, consumer, divIdx,
                   anchorIdx, requested, fetched, sent, output>>

\* Lines 166-181: the body of page k has been read and parsed, with an
\* error, which getPageProductReviews returns, or into a document; then the
\* slice, the two channels and the consumer goroutine of the call are made.
PageTaskParse(k) ==
    /\ pc # "Panic"
    /\ task[k].pc = "parse"
    /\ \/ /\ PageTaskResult(k, [reviews |-> <<>>, err |-> "goquery.NewDocumentFromReader"])
          /\ UNCHANGED fetched
       \/ /\ task' = [task EXCEPT ![k].pc = "each",
                                  ![k].call = [NoPageCall EXCEPT
                                                  !.consumer = [pc |-> "recv",
                                                                review |-> NilPtr]]]
          /\ fetched' = [fetched EXCEPT ![k] = @ + 1]
          /\ UNCHANGED wg
    /\ UNCHANGED <<call, doc1, site, pc, ret, reviews, chanClosed, quitClosed, consumer, divIdx,
                   anchorIdx, requested, sent, output>>

\* Line 184, one div of page k: the callback returns without a Review, or
\* its send on the call's unbuffered reviewsChan meets the receive of the
\* call's consumer. A send on a closed channel panics, which ends the
\* process.
PageTaskExtractDiv(k) ==
    /\ pc # "Panic"
    /\ task[k].pc = "each"
    /\ task[k].call.idx <= Len(site[k])
    /\ \E out \in {extractReviewFuncOn(pageProductURLOf(productName, k),
                                       site[k][task[k].call.idx])} :
           IF out = <<>>
           THEN /\ task' = [task EXCEPT ![k].call.idx = @ + 1]
                /\ UNCHANGED pc
           ELSE IF task[k].call.chanClosed
           THEN /\ pc' = "Panic"
                /\ UNCHANGED task
           ELSE /\ task[k].call.consumer.pc = "recv"
                /\ task' = [task EXCEPT ![k].call.idx = @ + 1,
                                        ![k].call.consumer = [pc |-> "append",
                                                              review |-> Ptr(out[1])]]
                /\ UNCHANGED pc
    /\ UNCHANGED <<call, doc1, site, ret, reviews, chanClosed, quitClosed, consumer, divIdx,
                   anchorIdx, wg, requested, fetched, sent, output>>

\* Line 177: the consumer of the call of page k appends the review it
\* received to the slice of the call.
PageTaskConsumerAppend(k) ==
    /\ pc # "Panic"
    /\ task[k].call.consumer.pc = "append"
    /\ task' = [task EXCEPT ![k].call.reviews =
                                Append(@, Deref(task[k].call.consumer.review)),
                            ![k].call.consumer = [pc |-> "recv", review |-> NilPtr]]
    /\ UNCHANGED <<call, doc1, site, pc, ret, reviews, chanClosed, quitClosed, consumer, divIdx,
                   anchorIdx, wg, requested, fetched, sent, output>>

\* Line 186, after the Each of line 184 has gone through every div of page
\* k; the call goes on to wait at line 187.
PageTaskCloseChan(k) ==
    /\ pc # "Panic"
    /\ task[k].pc = "each"
    /\ task[k].call.idx > Len(site[k])
    /\ task' = [task EXCEPT ![k].pc = "waitquit", ![k].call.chanClosed = TRUE]
    /\ UNCHANGED <<call, doc1, site, pc, ret, reviews, chanClosed, quitClosed, consumer, divIdx,
                   anchorIdx, wg, requested, fetched, sent, output>>

\* Lines 176 and 180: the range of the call's consumer over the closed
\* channel ends, and the quitChan of the call closes.
PageTaskConsumerQuit(k) ==
    /\ pc # "Panic"
    /\ task[k].call.consumer.pc = "recv"
    /\ task[k].call.chanClosed
    /\ task' = [task EXCEPT ![k].call.quitClosed = TRUE,
                            ![k].call.consumer = [pc |-> "done", review |-> NilPtr]]
    /\ UNCHANGED <<call, doc1, site, pc, ret, reviews, chanClosed, quitClosed, consumer, divIdx,
                   anchorIdx, wg, requested, fetched, sent, output>>

\* Lines 187-189: the receive on the closed quitChan of the call, then the
\* return of its slice to the goroutine of page k.
PageTaskReturn(k) ==
    /\ pc # "Panic"
    /\ task[k].pc = "waitquit"
    /\ task[k].call.quitClosed
    /\ PageTaskResult(k, [reviews |-> task[k].call.reviews, err |-> Nil])
    /\ UNCHANGED <<call, doc1, site, pc, ret, reviews, chanClosed, quitClosed, consumer, divIdx,
                   anchorIdx, requested, fetched, sent, output>>

\* PageTaskSend where the goroutine of page k appends to the slice of
\* getProductReviews itself, in place of sending on the channel.
PageTaskSend_AppendDirect(k) ==
    /\ pc # "Panic"
    /\ task[k].pc = "send"
    /\ task[k].idx <= Len(task[k].pageReviews)
    /\ reviews' = Append(reviews, task[k].pageReviews[task[k].idx])
    /\ IF task[k].idx = Len(task[k].pageReviews)
       THEN /\ task' = [task EXCEPT ![k].idx = @ + 1, ![k].pc = "done"]
            /\ wg' = wg - 1
       ELSE /\ task' = [task EXCEPT ![k].idx = @ + 1]
            /\ UNCHANGED wg
    /\ sent' = sent + 1
    /\ UNCHANGED <<call, doc1, site, pc, ret, chanClosed, quitClosed, consumer, divIdx,
                   anchorIdx, requested, fetched, output>>

\* PageTaskSend on a channel with room: the send does not wait for the
\* consumer to be at its receive.
PageTaskSend_NoRendezvous(k) ==
    /\ pc # "Panic"
    /\ task[k].pc = "send"
    /\ task[k].idx <= Len(task[k].pageReviews)
    /\ IF chanClosed
       THEN /\ pc' = "Panic"
            /\ UNCHANGED <<consumer, task, wg, sent>>
       ELSE /\ consumer.pc \in {"recv", "append"}
            /\ consumer' = [pc |-> "append",
                            review |-> Ptr(task[k].pageReviews[task[k].idx])]
            /\ IF task[k].idx = Len(task[k].pageReviews)
               THEN /\ task' = [task EXCEPT ![k].idx = @ + 1, ![k].pc = "done"]
                    /\ wg' = wg - 1
               ELSE /\ task' = [task EXCEPT ![k].idx = @ + 1]
                    /\ UNCHANGED wg
            /\ sent' = sent + 1
            /\ UNCHANGED pc
    /\ UNCHANGED <<call, doc1, site, ret, reviews, chanClosed, quitClosed, divIdx, anchorIdx,
                   requested, fetched, output>>

\* PageTaskSend with the loop of line 143 going through pageReviews from
\* its end.
PageTaskSend_Reverse(k) ==
    /\ pc # "Panic"
    /\ task[k].pc = "send"
    /\ task[k].idx <= Len(task[k].pageReviews)
    /\ IF chanClosed
       THEN /\ pc' = "Panic"
            /\ UNCHANGED <<consumer, task, wg, sent>>
       ELSE /\ consumer.pc = "recv"
            /\ consumer' =
                   [pc |-> "append",
                    review |-> Ptr(task[k].pageReviews[Len(task[k].pageReviews)
                                                           - task[k].idx + 1])]
            /\ IF task[k].idx = Len(task[k].pageReviews)
               THEN /\ task' = [task EXCEPT ![k].idx = @ + 1, ![k].pc = "done"]
                    /\ wg' = wg - 1
               ELSE /\ task' = [task EXCEPT ![k].idx = @ + 1]
                    /\ UNCHANGED wg
            /\ sent' = sent + 1
            /\ UNCHANGED pc
    /\ UNCHANGED <<call, doc1, site, ret, reviews, chanClosed, quitClosed, divIdx, anchorIdx,
                   requested, fetched, output>>

\* Lines 143-146: one send of the goroutine of page k meets the consumer;
\* after the last one the loop is over and the goroutine ends (wg.Done). A
\* send on a closed channel panics, which ends the process.
PageTaskSend(k) ==
    /\ pc # "Panic"
    /\ task[k].pc = "send"
    /\ task[k].idx <= Len(task[k].pageReviews)
    /\ IF chanClosed
       THEN /\ pc' = "Panic"
            /\ UNCHANGED <<consumer, task, wg, sent>>
       ELSE /\ consumer.pc = "recv"
            /\ consumer' = [pc |-> "append",
                            review |-> Ptr(task[k].pageReviews[task[k].idx])]
            /\ IF task[k].idx = Len(task[k].pageReviews)
               THEN /\ task' = [task EXCEPT ![k].idx = @ + 1, ![k].pc = "done"]
                    /\ wg' = wg - 1
               ELSE /\ task' = [task EXCEPT ![k].idx = @ + 1]
                    /\ UNCHANGED wg
            /\ sent' = sent + 1
            /\ UNCHANGED pc
    /\ UNCHANGED <<call, doc1, site, ret, reviews, chanClosed, quitClosed, divIdx, anchorIdx,
                   requested, fetched, output>>

\* main, lines 39-42: a non-nil error ends the process in log.Fatal.
\* main, lines 44-56: the file is created and the result encoded into it,
\* unless os.Create fails.
WriteOutput ==
    /\ pc = "Returned"
    /\ ret.err = Nil
    /\ \/ /\ output' = ret.value
          /\ pc' = "Done"
       \/ /\ pc' = "Fatal"
          /\ UNCHANGED output
    /\ UNCHANGED <<call, doc1, site, ret, reviews, chanClosed, quitClosed, consumer, divIdx,
                   anchorIdx, wg, task, requested, fetched, sent>>

Next ==
    \/ FetchFirstPage
    \/ ExtractFirstPageDiv
    \/ FirstPageExtracted
    \/ ConsumerAppend
    \/ ConsumerQuit
    \/ PaginateAnchor
    \/ WaitPages
    \/ CloseReviewsChan
    \/ WaitQuit
    \/ \E k \in Pages : PageTaskRequest(k)
    \/ \E k \in Pages : PageTaskAnswer(k)
    \/ \E k \in Pages : PageTaskParse(k)
    \/ \E k \in Pages : PageTaskExtractDiv(k)
    \/ \E k \in Pages : PageTaskConsumerAppend(k)
    \/ \E k \in Pages : PageTaskCloseChan(k)
    \/ \E k \in Pages : PageTaskConsumerQuit(k)
    \/ \E k \in Pages : PageTaskReturn(k)
    \/ \E k \in Pages : PageTaskSend(k)
    \/ WriteOutput

Spec == Init /\ [][Next]_vars

\* Some goroutine that can take a step eventually takes one.
FairSpec == Spec /\ WF_vars(Next)

(* ------------- a call of getPageProductReviews, step by step ----------- *)

\* Lines 171-189 of a call of page 2, outside a run: a caller calls twice
\* on the same parsed document, and call.results holds what the calls
\* returned.

\* The parsed documents of the calls followed: a page of cards behind an
\* advertisement, and the pages of one div of the markup inputs.
CallDocs == {PageDoc(2, n) : n \in 0..MaxCards} \cup {<<d>> : d \in MarkupDivs}

\* The document has been requested and parsed (lines 157-169).
InitCall ==
    \E divs \in CallDocs :
        /\ call = [NoCall EXCEPT !.pc = "Fetched", !.divs = divs]
        /\ doc1 = [divs |-> <<>>, anchors |-> <<>>]
        /\ site = [k \in Pages |-> <<>>]
        /\ pc = "Call"
        /\ ret = [value |-> NilPtr, err |-> Nil]
        /\ reviews = <<>>
        /\ chanClosed = FALSE
        /\ quitClosed = FALSE
        /\ consumer = [pc |-> "none", review |-> NilPtr]
        /\ divIdx = 1
        /\ anchorIdx = 1
        /\ wg = 0
        /\ task = [k \in Pages |-> NoTask]
        /\ requested = [k \in Pages |-> 0]
        /\ fetched = [k \in Pages |-> 0]
        /\ sent = 0
        /\ output = NilPtr

\* Lines 171-181: the slice, the two channels and the consumer goroutine.
PageCall ==
    /\ call.pc = "Fetched"
    /\ call' = [call EXCEPT !.pc = "Each", !.idx = 1, !.reviews = <<>>,
                            !.chanClosed = FALSE, !.quitClosed = FALSE,
                            !.consumer = [pc |-> "recv", review |-> NilPtr]]
    /\ UNCHANGED mainVars

\* Line 184, one div: the callback returns without a Review, or its send
\* meets the consumer's receive (a send on a closed channel panics).
PageExtractDiv ==
    /\ call.pc = "Each"
    /\ call.idx <= Len(call.divs)
    /\ \E out \in {extractReviewFuncOn(pageProductURLOf(productName, 2),
                                       call.divs[call.idx])} :
           IF out = <<>>
           THEN call' = [call EXCEPT !.idx = @ + 1]
           ELSE IF call.chanClosed
           THEN call' = [call EXCEPT !.pc = "Panic"]
           ELSE /\ call.consumer.pc = "recv"
                /\ call' = [call EXCEPT !.idx = @ + 1,
                                        !.consumer = [pc |-> "append",
                                                      review |-> Ptr(out[1])]]
    /\ UNCHANGED mainVars

\* Line 177: the consumer appends the review it received.
PageConsumerAppend ==
    /\ call.pc # "Panic"
    /\ call.consumer.pc = "append"
    /\ call' = [call EXCEPT !.reviews = Append(@, Deref(call.consumer.review)),
                            !.consumer = [pc |-> "recv", review |-> NilPtr]]
    /\ UNCHANGED mainVars

\* Line 186, after the Each of line 184 has gone through every div.
PageCloseChan ==
    /\ call.pc = "Each"
    /\ call.idx > Len(call.divs)
    /\ call' = [call EXCEPT !.pc = "WaitQuit", !.chanClosed = TRUE]
    /\ UNCHANGED mainVars

\* Lines 176 and 180: the range over the closed channel ends, quitChan
\* closes.
PageConsumerQuit ==
    /\ call.pc # "Panic"
    /\ call.consumer.pc = "recv"
    /\ call.chanClosed
    /\ call' = [call EXCEPT !.quitClosed = TRUE,
                            !.consumer = [pc |-> "done", review |-> NilPtr]]
    /\ UNCHANGED mainVars

\* PageReturn without the receive on quitChan of line 187.
PageReturn_NoWait ==
    /\ call.pc = "WaitQuit"
    /\ call' = [call EXCEPT !.results = Append(@, call.reviews),
                            !.pc = IF Len(call.results) = 0 THEN "Fetched" ELSE "Returned"]
    /\ UNCHANGED mainVars

\* Lines 187-189: the receive on the closed quitChan, then the return of the
\* slice; after the first call the caller calls once more.
PageReturn ==
    /\ call.pc = "WaitQuit"
    /\ call.quitClosed
    /\ call' = [call EXCEPT !.results = Append(@, call.reviews),
                            !.pc = IF Len(call.results) = 0 THEN "Fetched" ELSE "Returned"]
    /\ UNCHANGED mainVars

NextCall ==
    \/ PageCall
    \/ PageExtractDiv
    \/ PageConsumerAppend
    \/ PageCloseChan
    \/ PageConsumerQuit
    \/ PageReturn

\* Two calls of getPageProductReviews on one parsed document.
CallSpec == InitCall /\ [][NextCall]_vars

\* Runs of the program, and calls of getPageProductReviews step by step.
AllSpec == (Init \/ InitCall) /\ [][Next \/ NextCall]_vars

(* ------------------------- notions of the claims ----------------------- *)

\* getProductReviews has returned a ProductReviews.
Returned == pc \in {"Returned", "Done", "Fatal"}

CanonicalURL == "https://www.trustpilot.com/review/invideo.io"

\* The attribute value s lists a class that begins with p: p stands in s
\* at its start or right after a space.
ListsClass(s, p) ==
    \E i \in 1..Len(s) :
        /\ i = 1 \/ s[i - 1] = " "
        /\ i + Len(p) - 1 <= Len(s)
        /\ SubSeq(s, i, i + Len(p) - 1) = p

\* A div is a review card: its class attribute exists and lists a class of
\* each of the two families.
Qualifies(d) ==
    /\ d.class.exists
    /\ ListsClass(d.class.val, ReviewCardPrefix)
    /\ ListsClass(d.class.val, CardWrapperPrefix)

\* The number of review cards among the first n divs.
CardsAmong(divs, n) == Cardinality({i \in 1..n : Qualifies(divs[i])})

\* The link a card should get.
LinkOf(d) ==
    IF d.href.exists /\ d.href.val # "" THEN CanonicalURL \o d.href.val ELSE ""

\* The links of the cards of a document, in document order.
RECURSIVE LinksOf(_)
LinksOf(divs) ==
    IF divs = <<>> THEN <<>>
    ELSE (IF Qualifies(Head(divs)) THEN <<LinkOf(Head(divs))>> ELSE <<>>)
         \o LinksOf(Tail(divs))

\* The documents of the inputs, and what their cards send, worked out once.
AllDocs ==
    {PageDoc(k, n) : k \in 1..MaxPage, n \in 0..MaxCards}
        \cup {<<d>> : d \in MarkupDivs} \cup {<<>>}

EachDivOn == [doc \in AllDocs |-> EachDiv(doc, CanonicalURL)]

\* The reviews of page 1 and of page k.
FirstPageReviews == EachDivOn[doc1.divs]
PageReviews(k) == EachDivOn[site[k]]

Count(e, s) == Cardinality({i \in 1..Len(s) : s[i] = e})

\* Two sequences hold the same elements the same number of times.
SameMultiset(s, t) ==
    /\ Len(s) = Len(t)
    /\ \A i \in 1..Len(s) : Count(s[i], s) = Count(s[i], t)

RECURSIVE Repeat(_, _)
Repeat(s, n) == IF n = 0 THEN <<>> ELSE s \o Repeat(s, n - 1)

\* The reviews of the pages k..MaxPage, page j taken mult[j] times.
RECURSIVE PagesFrom(_, _)
PagesFrom(k, mult) ==
    IF k > MaxPage THEN <<>>
    ELSE Repeat(PageReviews(k), mult[k]) \o PagesFrom(k + 1, mult)

\* The number after the first page= of an href that has page=<digits>.
PageParam(href) ==
    LET i == CHOOSE j \in 1..Len(href) :
                 /\ j + Len(PagePattern) <= Len(href)
                 /\ SubSeq(href, j, j + Len(PagePattern) - 1) = PagePattern
                 /\ IsDigit(href[j + Len(PagePattern)])
                 /\ \A h \in 1..(j - 1) :
                        ~(/\ h + Len(PagePattern) <= Len(href)
                          /\ SubSeq(href, h, h + Len(PagePattern) - 1) = PagePattern
                          /\ IsDigit(href[h + Len(PagePattern)]))
    IN  SubSeq(href, i + Len(PagePattern), DigitRunEnd(href, i + Len(PagePattern)))

HasPageParam(a) == a.href.exists /\ MatchString(a.href.val)

\* The last-page control gives no page count: no href, no page=<digits>, or
\* a page number that is no int.
Malformed(a) == ~HasPageParam(a) \/ Atoi(PageParam(a.href.val)).err # Nil

\* The pages for which a goroutine of the anchor being handled was started.
Launched == {k \in Pages : task[k].pc # "none"}

(* ------------------------------- claims -------------------------------- *)

\* C1: when getProductReviews returns a ProductReviews, its reviews are, as
\* a multiset, the reviews of page 1 and, once each, the reviews of every
\* page of 2..N that was fetched successfully.
C1_EveryFetchedPageOnce ==
    Returned =>
        SameMultiset(Deref(ret.value).Reviews,
                     FirstPageReviews
                         \o PagesFrom(2, [k \in Pages |-> IF fetched[k] > 0 THEN 1 ELSE 0]))

\* C2: a page goroutine whose fetch or parse fails adds no review, every
\* goroutine whose fetch succeeds adds all the reviews of its page, and
\* getProductReviews returns a ProductReviews and a nil error.
C2_FailedPageAddsNothing ==
    Returned =>
        /\ ret.err = Nil
        /\ ret.value # NilPtr
        /\ SameMultiset(Deref(ret.value).Reviews, FirstPageReviews \o PagesFrom(2, fetched))

\* C2's case: the run has returned, a page failed and another page, with a
\* review on it, was fetched next to it.
C2_Witness ==
    /\ Returned
    /\ \E k, j \in Pages :
           /\ k # j
           /\ requested[k] > fetched[k]
           /\ fetched[j] > 0
           /\ PageReviews(j) # <<>>

\* C3: when the request or the parse of the first page fails,
\* getProductReviews returns the error and no ProductReviews, neither the
\* consumer goroutine nor a page goroutine has been started, and main
\* writes no file.
C3_FirstPageFailure ==
    ret.err # Nil =>
        /\ pc = "Failed"
        /\ ret.value = NilPtr
        /\ consumer.pc = "none"
        /\ \A k \in Pages : task[k].pc = "none" /\ requested[k] = 0
        /\ output = NilPtr

\* C3's case: the parse of the first page has failed.
C3_Witness == pc = "Failed" /\ ret.err = "goquery.NewDocumentFromReader"

\* C4: getProductReviews returns an error exactly when the request or the
\* parse of the first page fails: a run that ends with an error did nothing
\* after that request, and a run that got past it returns a nil error
\* whatever happens to its pages, its pagination link and its cards.
C4_OnlyFirstPageFails ==
    /\ ret.err # Nil <=> pc = "Failed"
    /\ pc = "Failed" =>
           /\ ret.err \in FetchErrors
           /\ divIdx = 1 /\ anchorIdx = 1 /\ sent = 0
           /\ \A k \in Pages : requested[k] = 0
    /\ pc \notin {"Start", "Failed"} => consumer.pc # "none"

\* C4's case: every page that was requested failed, the pagination link of
\* another run was malformed, and the file is written all the same.
C4_Witness ==
    /\ pc = "Done"
    /\ \E k \in Pages : requested[k] > 0
    /\ \A k \in Pages : fetched[k] = 0

\* C5: for a last-page link whose href has the parameter page=K, whatever
\* else the href holds, the goroutines started are those of the pages 2..K;
\* a first page without such a link makes no further request.
C5_PageCountIsPageParam ==
    /\ pc = "WaitPages" =>
           LET a == doc1.anchors[anchorIdx]
           IN  (HasPageParam(a) /\ ~Malformed(a)) =>
                   Launched = {k \in Pages :
                                   IntLeq(Dec(k), Atoi(PageParam(a.href.val)).val)}
    /\ doc1.anchors = <<>> => \A k \in Pages : requested[k] = 0

\* C6: when every last-page control of the first page is missing its href,
\* has no page=<digits> or has a page number that is no int (and when there
\* is no control at all), no page after the first is requested and the run
\* returns page 1's reviews with a nil error.
C6_MalformedLinkIsSinglePage ==
    (Returned /\ \A i \in 1..Len(doc1.anchors) : Malformed(doc1.anchors[i])) =>
        /\ \A k \in Pages : requested[k] = 0
        /\ ret.err = Nil
        /\ Deref(ret.value).Reviews = FirstPageReviews

\* C7: reviewsChan is closed only when every goroutine that was started has
\* ended, and getProductReviews returns only when the consumer has seen the
\* channel closed and has appended every review that was sent.
C7_TwoPhaseJoin ==
    /\ chanClosed =>
           /\ \A k \in Pages : task[k].pc \in {"none", "done"}
           /\ wg = 0
           /\ anchorIdx > Len(doc1.anchors)
    /\ Returned =>
           /\ chanClosed
           /\ quitClosed
           /\ consumer.pc = "done"
           /\ Len(Deref(ret.value).Reviews) = sent

\* C7's case: the run has returned after reviews of page 1 and of a later
\* page went through the channel.
C7_Witness ==
    /\ pc = "Returned"
    /\ sent > Len(FirstPageReviews)
    /\ FirstPageReviews # <<>>

\* The process has ended, and no page goroutine is left fetching or
\* blocked on its send.
Finished ==
    /\ pc \in {"Failed", "Done", "Fatal"}
    /\ \A k \in Pages : task[k].pc \in {"none", "done"}

\* C8: under fair scheduling every run ends, with every page goroutine it
\* started run to its end (none stays blocked on the channel), and
\* getProductReviews has returned only when no goroutine is left.
C8_Terminates ==
    /\ <>Finished
    /\ [](Returned => \A k \in Pages : task[k].pc \in {"none", "done"})

\* C8's case: the run has returned after every page of the site was
\* requested and several reviews were sent.
C8_Witness ==
    /\ Returned
    /\ \A k \in Pages : requested[k] > 0
    /\ sent >= 2

\* C9: every div with a class of each of the two families sends one Review,
\* whatever sub-fields it has, and every other div (no class attribute, one
\* family only) sends none: on page 1 the reviews sent so far are as many
\* as the cards among the divs gone through, and a fetched page gives as
\* many reviews as it has cards.
C9_OneReviewPerCard ==
    /\ pc = "ExtractFirstPage" => sent = CardsAmong(doc1.divs, divIdx - 1)
    /\ \A k \in Pages :
           (task[k].pc \in {"send", "done"} /\ ~task[k].failed) =>
               Len(task[k].pageReviews) = CardsAmong(site[k], Len(site[k]))

\* C9's case: a card without any sub-field has been gone through on page 1
\* and has sent its Review.
C9_Witness ==
    /\ pc = "Paginate"
    /\ Len(doc1.divs) = 1
    /\ Qualifies(doc1.divs[1])
    /\ ~doc1.divs[1].text.exists /\ ~doc1.divs[1].href.exists
    /\ sent = 1

\* C10: the link of every Review is the query-free product URL followed by
\* the href of the card's title anchor when that href is there and not
\* empty, and "" otherwise, on page 1 and on the pages 2..N.
C10_LinkIsCanonicalPlusHref ==
    /\ pc \notin {"Start", "Failed", "ExtractFirstPage"} =>
           LET links == LinksOf(doc1.divs)
           IN  \A i \in 1..Len(links) : i <= Len(reviews) => reviews[i].Link = links[i]
    /\ \A k \in Pages :
           (task[k].pc \in {"send", "done"} /\ ~task[k].failed) =>
               [i \in 1..Len(task[k].pageReviews) |-> task[k].pageReviews[i].Link]
                   = LinksOf(site[k])

\* C10's case: page 2 gave a Review whose link is the canonical URL and the
\* relative link of its card.
C10_Witness ==
    /\ task[2].pc = "done" /\ ~task[2].failed
    /\ \E i \in 1..Len(task[2].pageReviews) :
           task[2].pageReviews[i].Link
               = "https://www.trustpilot.com/review/invideo.io/reviews/123"
    /\ \E i \in 1..Len(reviews) : reviews[i].Link = task[2].pageReviews[1].Link

\* C11: two calls of getPageProductReviews on the same parsed document
\* return the same Reviews the same number of times, however the sends of
\* the extraction and the receives and appends of the consumer interleave.
C11_ExtractionIdempotent ==
    Len(call.results) = 2 => SameMultiset(call.results[1], call.results[2])

\* C11's case: both calls have returned, on a document with two cards.
C11_Witness ==
    /\ call.pc = "Returned"
    /\ Len(call.results) = 2
    /\ Len(call.results[2]) = 2

\* C12: whatever the number of elements matching the last-page selector,
\* a run starts one goroutine per page of 2..N, so no page is requested
\* more than once.
C12_OneTaskPerPage == \A k \in Pages : requested[k] <= 1

\* C13: the slice `reviews` of getProductReviews changes only in a step of
\* the consumer goroutine, which appends the review it received while no
\* producer moves; getProductReviews reads it for its result only when the
\* consumer has ended and quitChan is closed; and after the return it never
\* changes again.
C13_SingleWriter ==
    [][/\ reviews' # reviews =>
              /\ consumer.pc = "append"
              /\ consumer'.pc = "recv"
              /\ reviews' = Append(reviews, Deref(consumer.review))
              /\ UNCHANGED <<pc, task, divIdx, anchorIdx, ret>>
       /\ (ret' # ret /\ ret'.err = Nil) =>
              /\ quitClosed
              /\ consumer.pc = "done"
              /\ Deref(ret'.value).Reviews = reviews
              /\ reviews' = reviews
       /\ Returned => reviews' = reviews]_vars

\* C13's case: the file is written after the consumer appended reviews of
\* page 1 and of a later page and ended.
C13_Witness ==
    /\ pc = "Done"
    /\ consumer.pc = "done"
    /\ Len(reviews) > Len(FirstPageReviews)
    /\ Len(FirstPageReviews) > 0
    /\ Deref(output).Reviews = reviews

\* C14, as stated: the sink is unbounded, so a goroutine that is at its
\* send on reviewsChan can complete it at once, whatever the consumer is
\* doing and however many reviews are pending.
C14_SendNeverWaits ==
    \A k \in Pages : task[k].pc = "send" => ENABLED PageTaskSend(k)

\* C14, amended: reviewsChan has no buffer. A send completes only in a step
\* where the consumer is at its receive, a goroutine at its send waits for
\* as long as the consumer is appending, and the reviews sent and not yet
\* appended are never more than the one the consumer holds.
C14_SendMeetsConsumer ==
    /\ sent - Len(reviews) = (IF consumer.pc = "append" THEN 1 ELSE 0)
    /\ \A k \in Pages :
           task[k].pc = "send" => (ENABLED PageTaskSend(k) <=> consumer.pc = "recv")

\* C14's case: a goroutine is at its send while the consumer is still
\* appending the review of another send.
C14_Witness ==
    /\ consumer.pc = "append"
    /\ \E k \in Pages : task[k].pc = "send" /\ task[k].idx <= Len(task[k].pageReviews)
    /\ sent = Len(reviews) + 1

\* C15: when a goroutine for a page of 2..N exists, line 91 has gone through
\* every div of page 1 and each of its reviews has been sent and received
\* by the consumer; the slice begins with page 1's reviews in document
\* order at every moment, and so does the collection returned.
C15_FirstPageFirst ==
    LET first == FirstPageReviews
    IN  /\ (\E k \in Pages : task[k].pc # "none" \/ requested[k] > 0) =>
               /\ divIdx > Len(doc1.divs)
               /\ sent >= Len(first)
               /\ Len(reviews) + (IF consumer.pc = "append" THEN 1 ELSE 0) >= Len(first)
        /\ \A i \in 1..Len(reviews) : i <= Len(first) => reviews[i] = first[i]
        /\ Returned =>
               /\ Len(Deref(ret.value).Reviews) >= Len(first)
               /\ SubSeq(Deref(ret.value).Reviews, 1, Len(first)) = first

\* C15's case: the goroutine of page 2 is started while the consumer still
\* holds the last of the two reviews of page 1, received and not appended.
C15_Witness ==
    /\ task[2].pc = "fetch"
    /\ Len(FirstPageReviews) = 2
    /\ Len(reviews) = 1
    /\ consumer.pc = "append"

\* The page count the callback finds in the href of a last-page link is a
\* number, and at most 1.
CountAtMostOne(a) ==
    /\ HasPageParam(a)
    /\ Atoi(FindString(a.href.val)).err = Nil
    /\ IntLeq(Atoi(FindString(a.href.val)).val, Dec(1))

\* CountAtMostOne on the anchors of the inputs, worked out once.
CountAtMostOneOn == [a \in Anchors |-> CountAtMostOne(a)]

\* C16: for a last-page link whose page count is 0 or 1 no goroutine is
\* started and wg.Wait does not wait; when every last-page link of the first
\* page is such a link, no page after the first is requested and the run
\* returns page 1's reviews, those and no other.
C16_SinglePageCount ==
    /\ (pc = "WaitPages" /\ CountAtMostOneOn[doc1.anchors[anchorIdx]]) =>
           /\ Launched = {}
           /\ wg = 0
    /\ (/\ doc1.anchors # <<>>
        /\ \A i \in 1..Len(doc1.anchors) : CountAtMostOneOn[doc1.anchors[i]]) =>
           /\ \A k \in Pages : requested[k] = 0 /\ task[k].pc = "none"
           /\ Returned =>
                  /\ ret.err = Nil
                  /\ Deref(ret.value).Reviews = FirstPageReviews

\* C16's case: the first page has a link with page=1 and one with page=0,
\* and the run has written its two reviews.
C16_Witness ==
    /\ pc = "Done"
    /\ Len(doc1.anchors) = 2
    /\ \A i \in 1..Len(doc1.anchors) : CountAtMostOne(doc1.anchors[i])
    /\ Len(Deref(output).Reviews) = 2

\* C17: no send meets a closed channel, so no run panics: when reviewsChan
\* of getProductReviews is closed, line 91 has gone through every div and no
\* goroutine of a page has a send left; when the reviewsChan of a call of
\* getPageProductReviews is closed, its Each has gone through every div.
C17_NoSendOnClosed ==
    /\ pc # "Panic"
    /\ call.pc # "Panic"
    /\ chanClosed =>
           /\ divIdx > Len(doc1.divs)
           /\ \A k \in Pages : task[k].pc \in {"none", "done"}
    /\ call.chanClosed => call.idx > Len(call.divs)
    /\ \A k \in Pages : task[k].call.chanClosed => task[k].call.idx > Len(site[k])

\* C17's case: reviewsChan is closed after a goroutine of a page sent
\* every review of its page on it.
C17_Witness ==
    /\ chanClosed
    /\ \E k \in Pages :
           /\ task[k].pc = "done"
           /\ Len(task[k].pageReviews) = 2
           /\ task[k].idx = 3

\* The reviews of the pages k..MaxPage, one sequence per page.
RECURSIVE ReviewsFrom(_)
ReviewsFrom(k) ==
    IF k > MaxPage THEN <<>>
    ELSE <<IF k = 1 THEN FirstPageReviews ELSE PageReviews(k)>> \o ReviewsFrom(k + 1)

\* The reviews of the site, by page.
ReviewsByPage == ReviewsFrom(1)

\* r is one of the reviews s.
Among(r, s) == \E i \in 1..Len(s) : s[i] = r

\* With `pages` the reviews of the site by page: page k's reviews are on no
\* other page, so that a review of the collection can be told to be page
\* k's.
OwnReviewsIn(k, pages) ==
    \A i \in 1..Len(pages[k]) :
        \A j \in (1..MaxPage) \ {k} : ~Among(pages[k][i], pages[j])

InPage(r, k) == Among(r, PageReviews(k))

OwnReviews(k) == OwnReviewsIn(k, ReviewsByPage)

\* C18: the goroutine of page k has nothing to send before its call of
\* getPageProductReviews has returned, and then it has the reviews of the
\* whole page; as long as no request for page k has succeeded, no review of
\* page k is in the slice or with the consumer; and the collection returned
\* holds every review of page k or none of them.
C18_PageAllOrNothing ==
    LET pages == ReviewsByPage
    IN  \A k \in Pages :
            /\ task[k].pc \in {"fetch", "await", "parse", "each", "waitquit"} =>
                   task[k].idx = 1 /\ task[k].pageReviews = <<>>
            /\ task[k].pc = "send" => task[k].pageReviews = pages[k]
            /\ (fetched[k] = 0 /\ OwnReviewsIn(k, pages)) =>
                   /\ \A i \in 1..Len(reviews) : ~Among(reviews[i], pages[k])
                   /\ consumer.review # NilPtr =>
                          ~Among(Deref(consumer.review), pages[k])
            /\ (Returned /\ OwnReviewsIn(k, pages)) =>
                   LET got == Deref(ret.value).Reviews
                   IN  \/ \A i \in 1..Len(got) : ~Among(got[i], pages[k])
                       \/ \A i \in 1..Len(pages[k]) : Among(pages[k][i], got)

\* C18's case: of two pages with reviews of their own, one was fetched and
\* gave its two reviews and the other failed and gave none.
C18_Witness ==
    /\ Returned
    /\ \E k, j \in Pages :
           /\ OwnReviews(k) /\ OwnReviews(j)
           /\ fetched[k] = 1 /\ Len(PageReviews(k)) = 2
           /\ \A i \in 1..2 : \E h \in 1..Len(reviews) : reviews[h] = PageReviews(k)[i]
           /\ requested[j] = 1 /\ fetched[j] = 0 /\ Len(PageReviews(j)) >= 1
           /\ \A h \in 1..Len(reviews) : ~InPage(reviews[h], j)

\* The reviews of a collection s that are among the reviews t, in the order
\* of the collection.
OfPage(s, t) == SelectSeq(s, LAMBDA r : Among(r, t))

\* C19: for every page k whose reviews are its own, the reviews of page k
\* in the slice are, at every moment and in the collection returned, in the
\* order of their cards in the document of page k (once over for each
\* successful request of the page), whatever reviews of other pages lie
\* between them; and a call of getPageProductReviews returns the reviews of
\* its document in the order of the cards.
C19_PageOrderKept ==
    /\ LET pages == ReviewsByPage
       IN  \A k \in Pages :
               OwnReviewsIn(k, pages) =>
                   LET all == Repeat(pages[k], fetched[k])
                       got == OfPage(reviews, pages[k])
                   IN  /\ Len(got) <= Len(all)
                       /\ got = SubSeq(all, 1, Len(got))
                       /\ Returned => OfPage(Deref(ret.value).Reviews, pages[k]) = all
    /\ call.results # <<>> =>
           LET whole == EachDiv(call.divs, CanonicalURL)
           IN  \A i \in 1..Len(call.results) : call.results[i] = whole

\* C19's case: in the collection returned, a review of another page lies
\* between the two reviews of one page.
C19_Witness ==
    /\ Returned
    /\ \E k, j \in Pages :
           /\ k # j
           /\ OwnReviews(k) /\ OwnReviews(j)
           /\ Len(PageReviews(k)) = 2
           /\ \E a, b, c \in 1..Len(reviews) :
                  /\ a < b /\ b < c
                  /\ reviews[a] = PageReviews(k)[1]
                  /\ InPage(reviews[b], j)
                  /\ reviews[c] = PageReviews(k)[2]

=============================================================================
